---- MODULE Spec2Model ----
(***************************************************************************)
(* Model of the routine-PDF cache layer (PdfCacheService) in front of the  *)
(* PDFParserV3 pipeline, over the pdfCache / classSchedules tables.        *)
(*                                                                         *)
(* Every `await` of the service is a scheduling point: one action per      *)
(* awaited database statement or parser call.  Time is counted in days.    *)
(***************************************************************************)
EXTENDS Integers, Sequences, FiniteSets, TLC

(***************************************************************************)
(* Bounds of the model                                                     *)
(***************************************************************************)
NumProcs == 2        \* concurrent request handlers
MaxCalls == 3        \* calls of the service made in one behaviour
MaxNow == 30         \* last day the clock reaches
MaxBlocks == 2       \* day blocks in a parsed document
MaxMs == 1           \* last millisecond that Date.now() reaches
NumUrls == 6         \* PDF URLs that the in-memory cache of the optimized parser is asked for
MaxParses == 6       \* calls of PDFParserOptimized.parsePDFFromURL in one behaviour

(***************************************************************************)
(* Program constants                                                       *)
(***************************************************************************)
CACHE_DURATION_DAYS == 30

\* pdf-parser-optimized.ts: the in-memory cache keeps an entry for 5 minutes
MEMORY_CACHE_TTL == 5 * 60 * 1000

DAYS == <<"SATURDAY", "SUNDAY", "MONDAY", "TUESDAY", "WEDNESDAY", "THURSDAY", "FRIDAY">>

\* the entries of the course-title table that the modelled documents use
COURSE_NAMES == [c \in {"CSE112", "MAT101"} |->
                   IF c = "CSE112" THEN "Computer Fundamentals" ELSE "Mathematics - I"]

Departments == {"cse", "eee"}

DEFAULT_PDF_URLS == [d \in Departments |->
                       IF d = "cse" THEN "cse-class-routine-spring-2026-v1-8d732090c2.pdf"
                       ELSE "eee-class-routine-spring-2026-v1.pdf"]

Procs == 1..NumProcs

(***************************************************************************)
(* Strings.  A string is the sequence of its characters; positions are     *)
(* counted from 1 here and from 0 in the source.                           *)
(***************************************************************************)
UpperLetters == "ABCDEFGHIJKLMNOPQRSTUVWXYZ"
LowerLetters == "abcdefghijklmnopqrstuvwxyz"

charAt(s, i) == IF i >= 1 /\ i <= Len(s) THEN SubSeq(s, i, i) ELSE ""

\* s.substring(from, to), from and to counted from 0
substring(s, from, to) ==
  LET a == IF from < 0 THEN 0 ELSE IF from > Len(s) THEN Len(s) ELSE from
      b == IF to < 0 THEN 0 ELSE IF to > Len(s) THEN Len(s) ELSE to
  IN IF a < b THEN SubSeq(s, a + 1, b) ELSE ""

\* [A-Z], \d and \s
isUpper(c) == \E i \in 1..Len(UpperLetters) : charAt(UpperLetters, i) = c
isDigit(c) == c \in {"0", "1", "2", "3", "4", "5", "6", "7", "8", "9"}
isSpace(c) == c \in {" ", "\t", "\r"}

allUpper(s, from, n) == \A i \in from..(from + n - 1) : isUpper(charAt(s, i))
allDigits(s, from, n) == \A i \in from..(from + n - 1) : isDigit(charAt(s, i))

upperOf(c) ==
  IF \E i \in 1..Len(LowerLetters) : charAt(LowerLetters, i) = c
  THEN charAt(UpperLetters, CHOOSE i \in 1..Len(LowerLetters) : charAt(LowerLetters, i) = c)
  ELSE c

RECURSIVE upperFrom(_, _)
upperFrom(s, i) == IF i > Len(s) THEN "" ELSE upperOf(charAt(s, i)) \o upperFrom(s, i + 1)

toUpperCase(s) == upperFrom(s, 1)

trim(s) ==
  LET inside == {i \in 1..Len(s) : ~isSpace(charAt(s, i))}
  IN IF inside = {} THEN ""
     ELSE SubSeq(s, CHOOSE i \in inside : \A j \in inside : i <= j,
                    CHOOSE i \in inside : \A j \in inside : i >= j)

includes(s, sub) == \E i \in 0..(Len(s) - Len(sub)) : substring(s, i, i + Len(sub)) = sub

\* s.split("\n")
split(s) ==
  LET breaks == {i \in 1..Len(s) : charAt(s, i) = "\n"}
      n == Cardinality(breaks)
      break(k) == IF k = 0 THEN 0
                  ELSE IF k > n THEN Len(s) + 1
                  ELSE CHOOSE i \in breaks : Cardinality({j \in breaks : j < i}) = k - 1
  IN [k \in 1..(n + 1) |-> substring(s, break(k - 1), break(k) - 1)]

(***************************************************************************)
(* The parser, PDFParserV3.extractClasses                                  *)
(***************************************************************************)

\* /(\d{2}:\d{2})-(\d{2}:\d{2})/g over the line after the day header
isClock(s, i) == allDigits(s, i, 2) /\ charAt(s, i + 2) = ":" /\ allDigits(s, i + 3, 2)

RECURSIVE timePattern(_, _)
timePattern(s, i) ==
  IF i > Len(s) THEN <<>>
  ELSE IF isClock(s, i) /\ charAt(s, i + 5) = "-" /\ isClock(s, i + 6)
       THEN <<[start |-> SubSeq(s, i, i + 4), end |-> SubSeq(s, i + 6, i + 10)]>>
            \o timePattern(s, i + 11)
       ELSE timePattern(s, i + 1)

\* /Course/g over the header line: headerMatch.index of every match
RECURSIVE courseHeaderPattern(_, _)
courseHeaderPattern(s, i) ==
  IF i > Len(s) THEN <<>>
  ELSE IF substring(s, i - 1, i + 5) = "Course" THEN <<i - 1>> \o courseHeaderPattern(s, i + 6)
  ELSE courseHeaderPattern(s, i + 1)

\* /([A-Z]{3}\d{3})\((\d{2,3})_([A-Z]\d?)\)/ tried at position i: the match
\* (index, text length and groups), or length 0 when it does not match there
coursePatternAt(s, i) ==
  LET head == allUpper(s, i, 3) /\ allDigits(s, i + 3, 3) /\ charAt(s, i + 6) = "("
      b == IF allDigits(s, i + 7, 3) /\ charAt(s, i + 10) = "_" THEN 3
           ELSE IF allDigits(s, i + 7, 2) /\ charAt(s, i + 9) = "_" THEN 2
           ELSE 0
      u == i + 7 + b           \* where "_" is
      c == IF ~isUpper(charAt(s, u + 1)) THEN 0
           ELSE IF isDigit(charAt(s, u + 2)) /\ charAt(s, u + 3) = ")" THEN 2
           ELSE IF charAt(s, u + 2) = ")" THEN 1
           ELSE 0
  IN IF head /\ b > 0 /\ c > 0
     THEN [index |-> i - 1, length |-> 7 + b + 1 + c + 1,
           courseCode |-> SubSeq(s, i, i + 5),
           batch |-> SubSeq(s, i + 7, i + 6 + b),
           section |-> SubSeq(s, u + 1, u + c)]
     ELSE [index |-> i - 1, length |-> 0, courseCode |-> "", batch |-> "", section |-> ""]

\* /([A-Z]{1,2}-\d{2,3}(?:\([A-Z]\))?|G\d-\d{3})\s*$/ on beforeCourse: the
\* group ends at the last character that is not white space and starts at the
\* leftmost position from which the pattern matches up to there
isRoom(r) ==
  \/ \E u \in {1, 2}, d \in {2, 3}, par \in {0, 3} :
       /\ Len(r) = u + 1 + d + par
       /\ allUpper(r, 1, u) /\ charAt(r, u + 1) = "-" /\ allDigits(r, u + 2, d)
       /\ par = 3 => /\ charAt(r, u + d + 2) = "("
                     /\ isUpper(charAt(r, u + d + 3))
                     /\ charAt(r, u + d + 4) = ")"
  \/ /\ Len(r) = 6
     /\ charAt(r, 1) = "G" /\ isDigit(charAt(r, 2)) /\ charAt(r, 3) = "-" /\ allDigits(r, 4, 3)

roomPattern(beforeCourse) ==
  LET t == {i \in 1..Len(beforeCourse) : ~isSpace(charAt(beforeCourse, i))}
      e == IF t = {} THEN 0 ELSE CHOOSE i \in t : \A j \in t : i >= j
      starts == {j \in 1..e : isRoom(SubSeq(beforeCourse, j, e))}
  IN IF starts = {} THEN "TBA"
     ELSE SubSeq(beforeCourse, CHOOSE j \in starts : \A k \in starts : j <= k, e)

\* /^\s*([A-Z]{2,4}(?:_\d+)?)/ on afterCourse
RECURSIVE run(_, _, _)
run(s, i, digits) ==
  IF (IF digits THEN isDigit(charAt(s, i)) ELSE isUpper(charAt(s, i)))
  THEN 1 + run(s, i + 1, digits) ELSE 0

teacherPattern(afterCourse) ==
  LET t == {i \in 1..Len(afterCourse) : ~isSpace(charAt(afterCourse, i))}
      k == IF t = {} THEN 1 ELSE CHOOSE i \in t : \A j \in t : i <= j
      letters == IF run(afterCourse, k, FALSE) > 4 THEN 4 ELSE run(afterCourse, k, FALSE)
      number == IF charAt(afterCourse, k + letters) = "_"
                THEN run(afterCourse, k + letters + 1, TRUE) ELSE 0
  IN IF letters < 2 THEN "TBA"
     ELSE IF number > 0 THEN SubSeq(afterCourse, k, k + letters + number)
     ELSE SubSeq(afterCourse, k, k + letters - 1)

\* mutant of classEntry: batch and section are joined without the underscore
classEntryNoUnderscore(day, start, end, courseCode, batch, section, room, teacher) ==
  [day |-> day, timeStart |-> start, timeEnd |-> end,
   courseCode |-> courseCode,
   courseName |-> IF courseCode \in DOMAIN COURSE_NAMES THEN COURSE_NAMES[courseCode]
                  ELSE courseCode,
   batch |-> batch, section |-> section,
   room |-> room, teacher |-> teacher,
   batchSection |-> batch \o section]

\* lines 262-276: the ClassSchedule built for one match of coursePattern
classEntry(day, start, end, courseCode, batch, section, room, teacher) ==
  [day |-> day, timeStart |-> start, timeEnd |-> end,
   courseCode |-> courseCode,
   courseName |-> IF courseCode \in DOMAIN COURSE_NAMES THEN COURSE_NAMES[courseCode]
                  ELSE courseCode,
   batch |-> batch, section |-> section,
   room |-> room, teacher |-> teacher,
   batchSection |-> batch \o "_" \o section]

\* `${currentDay}|${timeSlot.start}|${courseCode}|${batchSection}`
uniqueKey(e) ==
  <<e.day, e.timeStart, e.courseCode, e.batchSection>>

\* mutant of timeSlotsOf: a column starts at its own anchor and ends at the next
timeSlotsAtAnchors(times, columnPositions) ==
  IF Len(times) = Len(columnPositions)
  THEN [j \in 1..Len(times) |->
          [start |-> times[j].start, end |-> times[j].end,
           columnStart |-> IF j = 1 THEN 0 ELSE columnPositions[j],
           columnEnd |-> IF j < Len(columnPositions) THEN columnPositions[j + 1] ELSE 300]]
  ELSE <<>>

\* lines 202-219: the columns of a day, from the time ranges and the positions
\* of the Course headers
timeSlotsOf(times, columnPositions) ==
  IF Len(times) = Len(columnPositions)
  THEN [j \in 1..Len(times) |->
          [start |-> times[j].start, end |-> times[j].end,
           columnStart |-> IF j = 1 THEN 0
                           ELSE (columnPositions[j - 1] + columnPositions[j]) \div 2,
           columnEnd |-> IF j < Len(columnPositions)
                         THEN (columnPositions[j] + columnPositions[j + 1]) \div 2
                         ELSE 300]]
  ELSE <<>>

\* mutant of timeSlotAt: the last column is the default
timeSlotAtLast(timeSlots, matchPosition) ==
  LET inside == {j \in 1..Len(timeSlots) :
                   /\ matchPosition >= timeSlots[j].columnStart
                   /\ matchPosition < timeSlots[j].columnEnd}
  IN IF inside = {} THEN timeSlots[Len(timeSlots)]
     ELSE timeSlots[CHOOSE j \in inside : \A k \in inside : j <= k]

\* lines 241-248: the column of a match, the first one by default
timeSlotAt(timeSlots, matchPosition) ==
  LET inside == {j \in 1..Len(timeSlots) :
                   /\ matchPosition >= timeSlots[j].columnStart
                   /\ matchPosition < timeSlots[j].columnEnd}
  IN IF inside = {} THEN timeSlots[1]
     ELSE timeSlots[CHOOSE j \in inside : \A k \in inside : j <= k]

\* mutant of roomLabel: the lab flag leaves no mark
roomLabelPlain(room, inComLabSection) == room

\* line 273: `inComLabSection ? `${room} (LAB)` : room`
roomLabel(room, inComLabSection) ==
  IF inComLabSection THEN room \o " (LAB)" ELSE room

\* what the pass keeps of one match, for the properties
matchOf(st, index, e) ==
  [line |-> st.line, index |-> index, timeSlots |-> st.timeSlots, entry |-> e]

\* the inner loop, `while ((match = coursePattern.exec(line)) !== null)`, with
\* `if (!seen.has(uniqueKey)) { seen.add(uniqueKey); classes.push(classEntry) }`;
\* st is the state of the pass; st.candidates and st.matches are the history of
\* every classEntry built
RECURSIVE extractLine(_, _, _)

\* the matches that coursePattern.exec finds in the line from position i on
matchesFrom(line, i) ==
  {m \in {coursePatternAt(line, j) : j \in i..Len(line)} : m.length > 0}

\* the match that exec returns: the leftmost one
firstMatch(found) == CHOOSE m \in found : \A other \in found : m.index <= other.index

\* lines 236-276: the classEntry built for the match
entryOf(line, st, match, timeSlot) ==
  classEntry(st.currentDay, timeSlot.start, timeSlot.end,
             match.courseCode, match.batch, match.section,
             roomLabel(roomPattern(substring(line, match.index - 50, match.index)),
                       st.inComLabSection),
             teacherPattern(substring(line, match.index + match.length,
                                      match.index + match.length + 30)))

\* mutant of push: the check of `seen` is gone, every entry is pushed
pushKeepsAll(st, index, e, k) ==
  [st EXCEPT !.candidates = Append(@, e),
             !.matches = Append(@, matchOf(st, index, e)),
             !.seen = @ \cup {k},
             !.classes = Append(@, e)]

\* lines 279-283: the entry is pushed unless its key was seen
push(st, index, e, k) ==
  [st EXCEPT !.candidates = Append(@, e),
             !.matches = Append(@, matchOf(st, index, e)),
             !.seen = @ \cup {k},
             !.classes = IF k \in st.seen THEN @ ELSE Append(@, e)]

\* mutant of loopBody: the loop ends after the first match of the line
loopBodyOnce(line, st, match, e) == push(st, match.index, e, uniqueKey(e))

\* the body of the inner loop for one match and the next exec, which starts
\* behind the match
loopBody(line, st, match, e) ==
  CHOOSE after \in {extractLine(line, match.index + 1 + match.length, s) :
                      s \in {push(st, match.index, e, uniqueKey(e))}} : TRUE

\* the inner loop on the matches left in the line
loopOn(line, st, found, match) ==
  IF found = {} THEN st
  ELSE loopBody(line, st, match, entryOf(line, st, match, timeSlotAt(st.timeSlots, match.index)))

extractLine(line, i, st) ==
  loopOn(line, st, matchesFrom(line, i), firstMatch(matchesFrom(line, i)))

\* what the pass keeps of one day header, for the properties
headerOf(st, i, times, columnPositions) ==
  [line |-> i, day |-> st.currentDay, times |-> times, columnPositions |-> columnPositions,
   timeSlots |-> st.timeSlots, inComLabSection |-> st.inComLabSection]

\* mutant of dayHeader: the COM LAB flag survives the header
dayHeaderKeepsFlag(lines, i, st) ==
  LET timeLine == IF i + 1 <= Len(lines) THEN lines[i + 1] ELSE ""
      headerLine == IF i + 2 <= Len(lines) THEN lines[i + 2] ELSE ""
      times == timePattern(timeLine, 1)
      columnPositions == courseHeaderPattern(headerLine, 1)
      next == [st EXCEPT !.currentDay = toUpperCase(trim(lines[i])),
                         !.timeSlots = timeSlotsOf(times, columnPositions)]
  IN [next EXCEPT !.headers = Append(@, headerOf(next, i, times, columnPositions))]

\* lines 178-219: the day header at line i starts a day
dayHeader(lines, i, st) ==
  LET timeLine == IF i + 1 <= Len(lines) THEN lines[i + 1] ELSE ""
      headerLine == IF i + 2 <= Len(lines) THEN lines[i + 2] ELSE ""
      times == timePattern(timeLine, 1)
      columnPositions == courseHeaderPattern(headerLine, 1)
      next == [st EXCEPT !.currentDay = toUpperCase(trim(lines[i])),
                         !.timeSlots = timeSlotsOf(times, columnPositions),
                         !.inComLabSection = FALSE]
  IN [next EXCEPT !.headers = Append(@, headerOf(next, i, times, columnPositions))]

\* the outer loop over the lines, lines 172-285
RECURSIVE extractLines(_, _, _)
extractLines(lines, i, st) ==
  IF i > Len(lines) THEN st
  ELSE LET line == lines[i]
           dayUpper == toUpperCase(trim(line))
           next == IF \E d \in DOMAIN DAYS : DAYS[d] = dayUpper
                   THEN dayHeader(lines, i, st)
                   ELSE IF includes(line, "COM LAB")
                   THEN [st EXCEPT !.inComLabSection = TRUE]
                   ELSE IF st.currentDay = "" \/ st.timeSlots = <<>>
                   THEN st
                   ELSE extractLine(line, 1, [st EXCEPT !.line = i])
       \* the state after line i, evaluated once, goes to line i + 1
       IN CHOOSE after \in {extractLines(lines, i + 1, s) : s \in {next}} : TRUE

\* lines 160-166 and 287
extractPass(text) ==
  extractLines(split(text), 1,
               [currentDay |-> "", timeSlots |-> <<>>, inComLabSection |-> FALSE,
                seen |-> {}, classes |-> <<>>,
                \* history of the pass, for the properties
                line |-> 0, candidates |-> <<>>, matches |-> <<>>, headers |-> <<>>])

\* candidate entries of the modelled documents
E1 == classEntry(DAYS[1], "08:30", "10:00", "CSE112", "71", "I", "KT-222", "MB")
E1otherTeacher == classEntry(DAYS[1], "08:30", "10:00", "CSE112", "71", "I", "KT-222", "AST")
E2 == classEntry(DAYS[1], "10:00", "11:30", "MAT101", "71", "I", "KT-223", "AST")

\* what pdftotext can print: nothing at all (stdout of length 0), or a
\* timetable with two classes on one line and, on the next line, the first
\* section again with a second teacher
EmptyText == ""
TimetableText ==
  "SATURDAY\n08:30-10:00  10:00-11:30\nRoom Course Teacher  Room Course Teacher\nKT-222 CSE112(71_I) MB  KT-223 MAT101(71_I) AST\nKT-222 CSE112(71_I) AST"
Texts == {EmptyText, TimetableText}

\* the blocks that the parsed documents are made of: the compact block whose
\* header line is two bare anchors; a block with a lower-case day name, laid
\* out as pdftotext -layout prints a table, that repeats a section with a second
\* teacher; a lab block under a COM LAB marker; a block with one time range
\* too many for its anchors; lines that belong to no day
ScenarioText ==
  "SATURDAY\n08:30-10:00  10:00-11:30\nCourse Course\nKT-222CSE112(71_I)MB  KT-223MAT101(71_I)AST"
SundayBlock ==
  " sunday\n08:30-10:00  10:00-11:30\nRoom Course Teacher  Room Course Teacher\nKT-222 CSE112(71_I) MB  KT-223 MAT101(71_I) AST\nKT-222 CSE112(71_I) AST"
MondayBlock ==
  "MONDAY\n11:30-01:00\nRoom Course Teacher\n(COM LAB)\nG1-012 CSE114(71_A1) XYZ_2"
TuesdayBlock ==
  "TUESDAY\n08:30-10:00  10:00-11:30\nRoom Course Teacher\nKT-222 CSE112(71_I) MB"
LooseLines ==
  "Daffodil International University\nKT-101 PHY101(70_B) AB"

\* a block with a class before its COM LAB marker, one on the marker line and
\* one after it
WednesdayBlock ==
  "WEDNESDAY\n11:30-01:00\nRoom Course Teacher\nKT-222 CSE112(71_I) MB\n(COM LAB) G1-013 CSE113(71_B) CD\nG1-012 CSE114(71_A1) XYZ_2"

Blocks == {ScenarioText, SundayBlock, MondayBlock, TuesdayBlock, WednesdayBlock, LooseLines}

\* n spaces
RECURSIVE spaces(_)
spaces(n) ==
  IF n = 0 THEN ""
  ELSE IF n % 2 = 0 THEN LET half == spaces(n \div 2) IN half \o half
  ELSE " " \o spaces(n - 1)

\* a page of three columns that is wider than the last column reaches: its
\* second line of classes has a class at offset 300
WideBlock ==
  "THURSDAY\n08:30-10:00  10:00-11:30  11:30-01:00\nRoom Course Teacher  Room Course Teacher  Room Course Teacher\nKT-222 CSE112(71_I) MB  KT-223 MAT101(71_I) AST  KT-224 CSE113(71_B) CD\n"
  \o spaces(300) \o "CSE114(71_A1) XYZ"

\* the documents of at most n blocks
RECURSIVE DocsOf(_)
DocsOf(n) ==
  IF n = 0 THEN {""}
  ELSE DocsOf(n - 1) \cup
       {(IF d = "" THEN b ELSE d \o "\n" \o b) : d \in DocsOf(n - 1), b \in Blocks}

\* a page with lines above its first day, a day with a COM LAB marker and a
\* day after it
SegmentedPage == LooseLines \o "\n" \o WednesdayBlock \o "\n" \o SundayBlock

Docs == DocsOf(MaxBlocks) \cup {WideBlock, SegmentedPage}

\* extractClasses, tabulated over the texts of the model
passOf == [text \in Texts \cup Docs |-> extractPass(text)]

extractClasses(text) == passOf[text].classes

(***************************************************************************)
(* PDFParserV3.calculateStats and groupByDay                               *)
(***************************************************************************)
lowerOf(c) ==
  IF \E i \in 1..Len(UpperLetters) : charAt(UpperLetters, i) = c
  THEN charAt(LowerLetters, CHOOSE i \in 1..Len(UpperLetters) : charAt(UpperLetters, i) = c)
  ELSE c

RECURSIVE lowerFrom(_, _)
lowerFrom(s, i) == IF i > Len(s) THEN "" ELSE lowerOf(charAt(s, i)) \o lowerFrom(s, i + 1)

\* day.charAt(0) + day.slice(1).toLowerCase()
formatDay(day) == charAt(day, 1) \o lowerFrom(day, 2)

\* dayCounts[day] = classes.filter((c) => c.day === day).length
dayCounts(classes) ==
  [d \in DOMAIN DAYS |-> Cardinality({i \in 1..Len(classes) : classes[i].day = DAYS[d]})]

\* mutant of statsFrom: a day that ties with the busiest so far replaces it
RECURSIVE statsFromLatest(_, _, _)
statsFromLatest(counts, d, acc) ==
  IF d > Len(DAYS) THEN acc
  ELSE LET count == counts[d]
           a1 == IF count >= acc.busiestCount
                 THEN [acc EXCEPT !.busiestCount = count, !.busiestDay = DAYS[d]]
                 ELSE acc
           a2 == IF (~a1.finite \/ count < a1.lightestCount) /\ count > 0
                 THEN [a1 EXCEPT !.lightestCount = count, !.lightestDay = DAYS[d],
                                 !.finite = TRUE]
                 ELSE a1
       IN statsFromLatest(counts, d + 1, a2)

\* the second DAYS.forEach; acc.finite is FALSE while lightestCount is Infinity
RECURSIVE statsFrom(_, _, _)
statsFrom(counts, d, acc) ==
  IF d > Len(DAYS) THEN acc
  ELSE LET count == counts[d]
           a1 == IF count > acc.busiestCount
                 THEN [acc EXCEPT !.busiestCount = count, !.busiestDay = DAYS[d]]
                 ELSE acc
           a2 == IF (~a1.finite \/ count < a1.lightestCount) /\ count > 0
                 THEN [a1 EXCEPT !.lightestCount = count, !.lightestDay = DAYS[d],
                                 !.finite = TRUE]
                 ELSE a1
       IN statsFrom(counts, d + 1, a2)

calculateStats(classes) ==
  LET acc == statsFrom(dayCounts(classes), 1,
                       [busiestDay |-> DAYS[1], busiestCount |-> 0,
                        lightestDay |-> DAYS[1], lightestCount |-> 0, finite |-> FALSE])
  IN [totalClasses |-> Len(classes),
      busiestDay |-> formatDay(acc.busiestDay),
      lightestDay |-> formatDay(acc.lightestDay),
      busiestDayCount |-> acc.busiestCount,
      lightestDayCount |-> IF acc.finite THEN acc.lightestCount ELSE 0]

\* mutant of groupByDay: only the days that have classes get a key
groupByDayPresent(classes) ==
  [formattedDay \in {formatDay(classes[i].day) : i \in 1..Len(classes)} |->
     SelectSeq(classes, LAMBDA c : formatDay(c.day) = formattedDay)]

\* grouped[formattedDay] = classes.filter((c) => c.day === day), for every day
groupByDay(classes) ==
  [formattedDay \in {formatDay(DAYS[d]) : d \in DOMAIN DAYS} |->
     LET day == DAYS[CHOOSE d \in DOMAIN DAYS : formatDay(DAYS[d]) = formattedDay]
     IN SelectSeq(classes, LAMBDA c : c.day = day)]

\* the ways parsePDFFromURL throws: axios error, axios timeout, pdftotext error
FailureKinds == {"fetch", "timeout", "extract"}

(***************************************************************************)
(* State                                                                   *)
(***************************************************************************)
VARIABLES
  now,             \* the wall clock, in days
  pdfCache,        \* rows of table pdfCache
  classSchedules,  \* rows of table classSchedules
  nextId,          \* the serial of pdfCache.id
  calls,           \* per request handler: the call it runs and its locals
  lastReturn,      \* what the call that ended last gave its caller
  started,         \* number of calls made so far
  created,         \* history: pdfCache id -> the classes its creator parsed
  served,          \* history: (department, version) -> expiresAt of the record that the
                   \* last getOrParsePdf to return persisted; 0 if none, or after an
                   \* invalidate of the department
  document,        \* the text that pdftotext printed for the document being parsed
  firstPass,       \* classes and stats of the parse of the document
  secondPass,      \* classes and stats of a second parse of the same document
  schedule,        \* groupByDay of the parsed classes
  millis,          \* Date.now()
  tmpdir,          \* the files of os.tmpdir(): path -> content
  fetches,         \* per request handler: the parsePDFFromURL it runs and its locals
  parseReturn,     \* what the parsePDFFromURL that ended last gave its caller
  memoryCache,     \* the Map of the optimized parser, its entries in insertion order
  parses,          \* per URL: the calls of PDFParserOptimized.parsePDFFromURL awaiting its text
  asked,           \* number of calls of PDFParserOptimized.parsePDFFromURL so far
  memoReturn       \* the PDFParserOptimized.parsePDFFromURL that returned last

cacheVars == <<now, pdfCache, classSchedules, nextId, calls, lastReturn, started, created, served>>
parserVars == <<document, firstPass, secondPass, schedule>>
fetchVars == <<millis, tmpdir, fetches, parseReturn>>
memoVars == <<memoryCache, parses, asked, memoReturn>>

vars == <<cacheVars, parserVars, fetchVars, memoVars>>

\* the (department, version) pairs that callers ask for: every caller leaves
\* version at its default, "1.0"
Keys == {<<"cse", "1.0">>, <<"eee", "1.0">>}

NoCall ==
  [op |-> "none", pc |-> "idle", department |-> "", version |-> "",
   cache |-> {}, validCache |-> 0, parsed |-> <<>>, expiresAt |-> 0, cacheId |-> 0,
   \* history of the call, for the properties
   text |-> "", undisturbed |-> FALSE]

NoReturn ==
  [op |-> "none", department |-> "", outcome |-> "none", hit |-> FALSE,
   classes |-> <<>>, isCached |-> FALSE]

NoPass ==
  [done |-> FALSE, classes |-> <<>>, stats |-> calculateStats(<<>>),
   \* history of the pass, for the properties
   headers |-> <<>>, matches |-> <<>>]

NoSchedule == [done |-> FALSE, grouped |-> groupByDay(<<>>)]

NoFetch ==
  [pc |-> "idle", department |-> "", pdfBuffer |-> "", tempPdfPath |-> -1,
   classes |-> <<>>, error |-> "",
   \* history of the call, for the properties
   alone |-> FALSE]

NoParseReturn == [department |-> "", outcome |-> "none", classes |-> <<>>, alone |-> FALSE]

CacheInit ==
  /\ now = 0
  /\ pdfCache = {}
  /\ classSchedules = {}
  /\ nextId = 1
  /\ calls = [p \in Procs |-> NoCall]
  /\ lastReturn = NoReturn
  /\ started = 0
  /\ created = [i \in {} |-> <<>>]
  /\ served = [k \in Keys |-> 0]

\* no document is being parsed
ParserIdle ==
  /\ document = ""
  /\ firstPass = NoPass
  /\ secondPass = NoPass
  /\ schedule = NoSchedule

\* no parsePDFFromURL runs and the temporary directory holds none of its files
FetchIdle ==
  /\ millis = 0
  /\ tmpdir = [f \in {} |-> ""]
  /\ fetches = [p \in Procs |-> NoFetch]
  /\ parseReturn = NoParseReturn

NoMemoReturn == [cached |-> FALSE, evicted |-> 0]

\* the module of the optimized parser is loaded: its Map is empty
MemoIdle ==
  /\ memoryCache = <<>>
  /\ parses = [url \in 1..NumUrls |-> 0]
  /\ asked = 0
  /\ memoReturn = NoMemoReturn

Init == CacheInit /\ ParserIdle /\ FetchIdle /\ MemoIdle

Free(p) == calls[p].pc = "idle"

\* handlers are interchangeable: a request takes the first free one
FirstFree(p) == Free(p) /\ \A q \in Procs : q < p => ~Free(q)

\* a request arrives at handler p
Arrives(p) ==
  /\ FirstFree(p)
  /\ started < MaxCalls
  /\ started' = started + 1

InFlight(p, op, department) ==
  /\ calls[p].op = op
  /\ calls[p].department = department

\* rows of a (department, version) key, and the ones not expired at time t
RecordsOf(department, version) ==
  {r \in pdfCache : r.department = department /\ r.version = version}

Expired(r, t) == r.expiresAt <= t

ValidRecordsOf(department, version, t) ==
  {r \in RecordsOf(department, version) : ~Expired(r, t)}

\* the results a `.limit(1)` select without ORDER BY can produce
Limit1(rows) == IF rows = {} THEN {{}} ELSE {{r} : r \in rows}

\* all orders in which a select without ORDER BY can return a set of rows
Orders(rows) ==
  {s \in [1..Cardinality(rows) -> rows] : \A i, j \in 1..Cardinality(rows) : i # j => s[i] # s[j]}

(***************************************************************************)
(* PdfCacheService.getOrParsePdf                                           *)
(***************************************************************************)

\* mutant of validCacheOf: a record is still valid on the day it expires
validCacheAtExpiry(cache, t) == {c \in cache : c.expiresAt >= t}

\* cache.find((c) => new Date(c.expiresAt) > now)
validCacheOf(cache, t) == {c \in cache : c.expiresAt > t}

\* the row -> ClassSchedule mapping of a cache hit
RowToClass(c) ==
  [day |-> c.day, timeStart |-> c.timeStart, timeEnd |-> c.timeEnd,
   courseCode |-> c.courseCode,
   courseName |-> IF c.courseName = "" THEN c.courseCode ELSE c.courseName,
   batch |-> c.batch, section |-> c.section, batchSection |-> c.batchSection,
   room |-> c.room, teacher |-> c.teacher]

\* the class -> row mapping of the insert into classSchedules
ClassToRow(c, idx, cacheId, department) ==
  [cacheId |-> cacheId, idx |-> idx,
   day |-> c.day, timeStart |-> c.timeStart, timeEnd |-> c.timeEnd,
   courseCode |-> c.courseCode, courseName |-> c.courseName,
   batch |-> c.batch, section |-> c.section, batchSection |-> c.batchSection,
   room |-> c.room, teacher |-> c.teacher,
   department |-> department]

\* a call of the department starts: the running calls `op` of it are no longer alone
Disturb(cs, op, department) ==
  [q \in Procs |->
     IF cs[q].op = op /\ cs[q].department = department
     THEN [cs[q] EXCEPT !.undisturbed = FALSE]
     ELSE cs[q]]

\* a getOrParsePdf that no invalidate overlapped returns after persisting
ServedAfter(p, expiresAt) ==
  LET c == calls[p]
  IN IF c.undisturbed
     THEN [served EXCEPT ![<<c.department, c.version>>] = expiresAt]
     ELSE served

Returned(c, outcome, classes) ==
  [NoReturn EXCEPT !.op = c.op, !.department = c.department, !.outcome = outcome,
                   !.hit = (c.validCache # 0), !.classes = classes]

\* lines 12-29 and the branch at 31 / 54: select the record, test its expiry
\* (getDb() resolves without touching the tables)
Lookup(p, department, version) ==
  /\ Arrives(p)
  /\ \E cache \in Limit1(RecordsOf(department, version)) :
       LET valid == validCacheOf(cache, now)
           c == [NoCall EXCEPT
                   !.op = "get", !.department = department, !.version = version,
                   !.undisturbed = (\A q \in Procs : ~InFlight(q, "clear", department))]
       IN calls' = [Disturb(calls, "clear", department) EXCEPT ![p] =
            IF valid # {}
            THEN [c EXCEPT !.pc = "selectClasses",
                           !.validCache = (CHOOSE r \in valid : TRUE).id]
            ELSE [c EXCEPT !.pc = "parse"]]
  /\ UNCHANGED <<now, pdfCache, classSchedules, nextId, lastReturn, created, served>>
  /\ UNCHANGED <<parserVars, fetchVars, memoVars>>

\* lines 34-52: the hit reads the classes of the record and returns them
SelectClasses(p) ==
  /\ calls[p].op = "get" /\ calls[p].pc = "selectClasses"
  /\ LET rows == {r \in classSchedules : r.cacheId = calls[p].validCache}
     IN \E order \in Orders(rows) :
          lastReturn' = Returned(calls[p], "ok", [i \in 1..Cardinality(rows) |-> RowToClass(order[i])])
  /\ calls' = [calls EXCEPT ![p] = NoCall]
  /\ UNCHANGED <<started, now, pdfCache, classSchedules, nextId, created, served>>
  /\ UNCHANGED <<parserVars, fetchVars, memoVars>>

\* lines 56-60, parsePDFFromURL returning: pdftotext printed `text`; the
\* continuation computes expiresAt and sends the insert
ParseOk(p, text) ==
  /\ calls[p].op = "get" /\ calls[p].pc = "parse"
  /\ calls' = [calls EXCEPT ![p].parsed = extractClasses(text),
                            ![p].text = text,
                            ![p].expiresAt = now + CACHE_DURATION_DAYS,
                            ![p].pc = "insertCache"]
  /\ UNCHANGED <<started, now, pdfCache, classSchedules, nextId, lastReturn, created, served>>
  /\ UNCHANGED <<parserVars, fetchVars, memoVars>>

\* mutant of ParseFail: the failure is caught and cached as an empty record
ParseFailCachesEmpty(p, kind) ==
  /\ calls[p].op = "get" /\ calls[p].pc = "parse"
  /\ pdfCache' = pdfCache \cup
       {[id |-> nextId, department |-> calls[p].department,
         pdfUrl |-> DEFAULT_PDF_URLS[calls[p].department], version |-> calls[p].version,
         parsedAt |-> now, expiresAt |-> now + CACHE_DURATION_DAYS, totalClasses |-> 0]}
  /\ nextId' = nextId + 1
  /\ created' = [i \in DOMAIN created \cup {nextId} |->
                   IF i = nextId THEN <<>> ELSE created[i]]
  /\ lastReturn' = Returned(calls[p], "error", <<>>)
  /\ calls' = [calls EXCEPT ![p] = NoCall]
  /\ UNCHANGED <<started, now, classSchedules, served>>
  /\ UNCHANGED <<parserVars, fetchVars, memoVars>>

\* line 56, parsePDFFromURL throwing `Failed to parse PDF: ...`: the error
\* leaves getOrParsePdf
ParseFail(p, kind) ==
  /\ calls[p].op = "get" /\ calls[p].pc = "parse"
  /\ lastReturn' = Returned(calls[p], "error", <<>>)
  /\ calls' = [calls EXCEPT ![p] = NoCall]
  /\ UNCHANGED <<started, now, pdfCache, classSchedules, nextId, created, served>>
  /\ UNCHANGED <<parserVars, fetchVars, memoVars>>

\* lines 62-70 (and 92-93 when there are no classes): the database inserts the
\* pdfCache row, parsedAt defaulting to its clock
InsertCache(p) ==
  /\ calls[p].op = "get" /\ calls[p].pc = "insertCache"
  /\ LET c == calls[p]
         expiresAt == c.expiresAt
         newCache == [id |-> nextId, department |-> c.department,
                      pdfUrl |-> DEFAULT_PDF_URLS[c.department], version |-> c.version,
                      parsedAt |-> now, expiresAt |-> expiresAt,
                      totalClasses |-> Len(c.parsed)]
     IN /\ pdfCache' = pdfCache \cup {newCache}
        /\ nextId' = nextId + 1
        /\ created' = [i \in DOMAIN created \cup {nextId} |->
                          IF i = nextId THEN c.parsed ELSE created[i]]
        /\ IF Len(c.parsed) > 0
           THEN /\ calls' = [calls EXCEPT ![p].cacheId = nextId,
                                          ![p].text = "", ![p].pc = "insertClasses"]
                /\ UNCHANGED <<served, lastReturn>>
           ELSE /\ calls' = [calls EXCEPT ![p] = NoCall]
                /\ lastReturn' = Returned(c, "ok", c.parsed)
                /\ served' = ServedAfter(p, expiresAt)
  /\ UNCHANGED <<started, now, classSchedules>>
  /\ UNCHANGED <<parserVars, fetchVars, memoVars>>

\* lines 72-93: insert the class rows and return parsed.classes
InsertClasses(p) ==
  /\ calls[p].op = "get" /\ calls[p].pc = "insertClasses"
  /\ LET c == calls[p]
     IN /\ classSchedules' = classSchedules \cup
              {ClassToRow(c.parsed[i], i, c.cacheId, c.department) : i \in 1..Len(c.parsed)}
        /\ lastReturn' = Returned(c, "ok", c.parsed)
        /\ served' = ServedAfter(p, c.expiresAt)
  /\ calls' = [calls EXCEPT ![p] = NoCall]
  /\ UNCHANGED <<started, now, pdfCache, nextId, created>>
  /\ UNCHANGED <<parserVars, fetchVars, memoVars>>

(***************************************************************************)
(* PdfCacheService.clearCache                                              *)
(***************************************************************************)

\* lines 99-107: select the records of the department
SelectCaches(p, department) ==
  /\ Arrives(p)
  /\ LET caches == {r.id : r \in {x \in pdfCache : x.department = department}}
         c == [NoCall EXCEPT
                 !.op = "clear", !.department = department,
                 !.cache = caches,
                 !.pc = IF caches = {} THEN "deleteCache" ELSE "deleteClasses",
                 !.undisturbed = (\A q \in Procs : ~InFlight(q, "get", department))]
     IN calls' = [Disturb(calls, "get", department) EXCEPT ![p] = c]
  /\ served' = [k \in Keys |-> IF k[1] = department THEN 0 ELSE served[k]]
  /\ UNCHANGED <<now, pdfCache, classSchedules, nextId, lastReturn, created>>
  /\ UNCHANGED <<parserVars, fetchVars, memoVars>>

\* lines 109-112, one round of the loop: delete the classes of one selected record
DeleteClasses(p) ==
  /\ calls[p].op = "clear" /\ calls[p].pc = "deleteClasses"
  /\ \E id \in calls[p].cache :
       /\ classSchedules' = {r \in classSchedules : r.cacheId # id}
       /\ calls' = [calls EXCEPT ![p].cache = calls[p].cache \ {id},
                                 ![p].pc = IF calls[p].cache = {id} THEN "deleteCache"
                                           ELSE "deleteClasses"]
  /\ UNCHANGED <<started, now, pdfCache, nextId, lastReturn, created, served>>
  /\ UNCHANGED <<parserVars, fetchVars, memoVars>>

\* mutant of DeleteCache: the delete has no where clause
DeleteCacheAll(p) ==
  /\ calls[p].op = "clear" /\ calls[p].pc = "deleteCache"
  /\ pdfCache' = {}
  /\ created' = [i \in {} |-> <<>>]
  /\ lastReturn' = Returned(calls[p], "ok", <<>>)
  /\ calls' = [calls EXCEPT ![p] = NoCall]
  /\ UNCHANGED <<started, now, classSchedules, nextId, served>>
  /\ UNCHANGED <<parserVars, fetchVars, memoVars>>

\* lines 114-118: delete the records of the department
DeleteCache(p) ==
  /\ calls[p].op = "clear" /\ calls[p].pc = "deleteCache"
  /\ pdfCache' = {r \in pdfCache : r.department # calls[p].department}
  /\ created' = [i \in {r.id : r \in pdfCache'} |-> created[i]]
  /\ lastReturn' = Returned(calls[p], "ok", <<>>)
  /\ calls' = [calls EXCEPT ![p] = NoCall]
  /\ UNCHANGED <<started, now, classSchedules, nextId, served>>
  /\ UNCHANGED <<parserVars, fetchVars, memoVars>>

(***************************************************************************)
(* PdfCacheService.getCacheStatus                                          *)
(***************************************************************************)

\* lines 138-147: isCached of the selected rows
isCachedOf(cache, t) ==
  IF cache = {} THEN FALSE
  ELSE LET c == CHOOSE r \in cache : TRUE
           isExpired == c.expiresAt <= t
       IN ~isExpired

\* lines 123-152
GetCacheStatus(p, department) ==
  /\ Arrives(p)
  /\ \E cache \in Limit1({r \in pdfCache : r.department = department}) :
       lastReturn' = [NoReturn EXCEPT !.op = "status", !.department = department,
                                      !.outcome = "ok",
                                      !.isCached = isCachedOf(cache, now)]
  /\ UNCHANGED <<now, pdfCache, classSchedules, nextId, calls, created, served>>
  /\ UNCHANGED <<parserVars, fetchVars, memoVars>>

(***************************************************************************)
(* No database                                                             *)
(***************************************************************************)
Operations == {"get", "clear", "status"}

\* lines 13-14, 100-101, 129-130: getDb() resolves to null and the call throws
\* before it touches a table
DbUnavailable(p, op, department) ==
  /\ Arrives(p)
  /\ lastReturn' = [NoReturn EXCEPT !.op = op, !.department = department,
                                    !.outcome = "Database not available"]
  /\ UNCHANGED <<now, pdfCache, classSchedules, nextId, calls, created, served>>
  /\ UNCHANGED <<parserVars, fetchVars, memoVars>>

(***************************************************************************)
(* The clock                                                               *)
(***************************************************************************)
TickDays == CACHE_DURATION_DAYS

Tick ==
  /\ now + TickDays <= MaxNow
  /\ now' = now + TickDays
  /\ UNCHANGED <<started, pdfCache, classSchedules, nextId, calls, lastReturn, created, served>>
  /\ UNCHANGED <<parserVars, fetchVars, memoVars>>

Next ==
  \/ \E p \in Procs, k \in Keys : Lookup(p, k[1], k[2])
  \/ \E p \in Procs : SelectClasses(p)
  \/ \E p \in Procs, text \in Texts : ParseOk(p, text)
  \/ \E p \in Procs, kind \in FailureKinds : ParseFail(p, kind)
  \/ \E p \in Procs : InsertCache(p)
  \/ \E p \in Procs : InsertClasses(p)
  \/ \E p \in Procs, d \in Departments : SelectCaches(p, d)
  \/ \E p \in Procs : DeleteClasses(p)
  \/ \E p \in Procs : DeleteCache(p)
  \/ \E p \in Procs, d \in Departments : GetCacheStatus(p, d)
  \/ \E p \in Procs, op \in Operations, d \in Departments : DbUnavailable(p, op, d)
  \/ Tick

Spec == Init /\ [][Next]_vars

TypeOK ==
  /\ now \in 0..MaxNow
  /\ nextId \in 1..(MaxCalls + 1)
  /\ started \in 0..MaxCalls
  /\ \A r \in pdfCache : r.id \in 1..MaxCalls /\ r.department \in Departments
  /\ \A p \in Procs : calls[p].op \in {"none", "get", "clear", "status"}

(***************************************************************************)
(* The parser on one document: parsePDFFromURL from the text that          *)
(* pdftotext printed on, and the groupByDay of the router                  *)
(***************************************************************************)
ParserInit ==
  /\ CacheInit
  /\ FetchIdle
  /\ MemoIdle
  /\ document \in Docs
  /\ firstPass = NoPass
  /\ secondPass = NoPass
  /\ schedule = NoSchedule

\* lines 124-137: classes and stats of the text
passResult(text) ==
  LET pass == passOf[text]
  IN [done |-> TRUE, classes |-> pass.classes, stats |-> calculateStats(pass.classes),
      headers |-> pass.headers, matches |-> pass.matches]

\* the document is parsed
ParseText ==
  /\ ~firstPass.done
  /\ firstPass' = passResult(document)
  /\ UNCHANGED <<document, secondPass, schedule>>
  /\ UNCHANGED <<cacheVars, fetchVars, memoVars>>

\* the same document is parsed once more
Reparse ==
  /\ firstPass.done /\ ~secondPass.done
  /\ secondPass' = passResult(document)
  /\ UNCHANGED <<document, firstPass, schedule>>
  /\ UNCHANGED <<cacheVars, fetchVars, memoVars>>

\* the router groups the classes for its answer
GroupByDay ==
  /\ firstPass.done /\ ~schedule.done
  /\ schedule' = [done |-> TRUE, grouped |-> groupByDay(firstPass.classes)]
  /\ UNCHANGED <<document, firstPass, secondPass>>
  /\ UNCHANGED <<cacheVars, fetchVars, memoVars>>

ParserNext ==
  \/ ParseText
  \/ Reparse
  \/ GroupByDay

ParserSpec == ParserInit /\ [][ParserNext]_vars

(***************************************************************************)
(* parsePDFFromURL, one action per await.  A temporary file is named by    *)
(* the millisecond in which it was created: routine_<ms>.pdf is path ms,   *)
(* and -1 stands for tempPdfPath = null.  A PDF buffer is named by the     *)
(* department whose routine it is.                                         *)
(***************************************************************************)

\* the text that pdftotext prints for the routine of each department
PdfTexts == [d \in Departments |-> IF d = "cse" THEN TimetableText ELSE MondayBlock]

Fetching(p) == fetches[p].pc # "idle"

FirstIdle(p) == ~Fetching(p) /\ \A q \in Procs : q < p => Fetching(q)

\* getOrParsePdf of a department calls parsePDFFromURL with the department's URL
StartParse(p, department) ==
  /\ FirstIdle(p)
  /\ LET overlaps == {q \in Procs : Fetching(q) /\ fetches[q].department = department}
     IN fetches' = [q \in Procs |->
                      IF q = p THEN [NoFetch EXCEPT !.pc = "get", !.department = department,
                                                    !.alone = (overlaps = {})]
                      ELSE IF q \in overlaps THEN [fetches[q] EXCEPT !.alone = FALSE]
                      ELSE fetches[q]]
  /\ UNCHANGED <<millis, tmpdir, parseReturn>>
  /\ UNCHANGED <<cacheVars, parserVars, memoVars>>

\* axios.get resolves: the buffer is taken and the temporary path is named
\* after Date.now()
AxiosGet(p) ==
  /\ fetches[p].pc = "get"
  /\ fetches' = [fetches EXCEPT ![p].pdfBuffer = fetches[p].department,
                                ![p].tempPdfPath = millis,
                                ![p].pc = "writeFile"]
  /\ UNCHANGED <<millis, tmpdir, parseReturn>>
  /\ UNCHANGED <<cacheVars, parserVars, memoVars>>

\* the end of a call: what the return or the throw gives the caller
Returns(p, outcome, classes) ==
  /\ parseReturn' = [department |-> fetches[p].department, outcome |-> outcome,
                     classes |-> classes, alone |-> fetches[p].alone]
  /\ fetches' = [fetches EXCEPT ![p] = NoFetch]

\* axios.get rejects: tempPdfPath is still null, the call throws
AxiosFail(p) ==
  /\ fetches[p].pc = "get"
  /\ Returns(p, "download", <<>>)
  /\ UNCHANGED <<millis, tmpdir>>
  /\ UNCHANGED <<cacheVars, parserVars, memoVars>>

\* fs.writeFile creates or overwrites the file at the path
WriteFile(p) ==
  /\ fetches[p].pc = "writeFile"
  /\ tmpdir' = [f \in DOMAIN tmpdir \cup {fetches[p].tempPdfPath} |->
                  IF f = fetches[p].tempPdfPath THEN fetches[p].pdfBuffer ELSE tmpdir[f]]
  /\ fetches' = [fetches EXCEPT ![p].pc = "pdftotext"]
  /\ UNCHANGED <<millis, parseReturn>>
  /\ UNCHANGED <<cacheVars, parserVars, memoVars>>

\* pdftotext reads the file that is at the path now; with no file there it
\* exits non-zero and execAsync rejects
Pdftotext(p) ==
  /\ fetches[p].pc = "pdftotext"
  /\ IF fetches[p].tempPdfPath \in DOMAIN tmpdir
     THEN fetches' = [fetches EXCEPT
                        ![p].classes = extractClasses(PdfTexts[tmpdir[fetches[p].tempPdfPath]]),
                        ![p].pc = "unlink"]
     ELSE fetches' = [fetches EXCEPT ![p].error = "Failed to parse PDF", ![p].pc = "unlink"]
  /\ UNCHANGED <<millis, tmpdir, parseReturn>>
  /\ UNCHANGED <<cacheVars, parserVars, memoVars>>

\* finally: the file at the path is removed, a missing file is ignored; then
\* the call returns its classes or throws
Unlink(p) ==
  /\ fetches[p].pc = "unlink"
  /\ tmpdir' = [f \in DOMAIN tmpdir \ {fetches[p].tempPdfPath} |-> tmpdir[f]]
  /\ IF fetches[p].error = ""
     THEN Returns(p, "ok", fetches[p].classes)
     ELSE Returns(p, "failed", <<>>)
  /\ UNCHANGED millis
  /\ UNCHANGED <<cacheVars, parserVars, memoVars>>

\* a millisecond passes
TickMs ==
  /\ millis < MaxMs
  /\ millis' = millis + 1
  /\ UNCHANGED <<tmpdir, fetches, parseReturn>>
  /\ UNCHANGED <<cacheVars, parserVars, memoVars>>

FetchNext ==
  \/ \E p \in Procs, department \in Departments : StartParse(p, department)
  \/ \E p \in Procs : AxiosGet(p)
  \/ \E p \in Procs : AxiosFail(p)
  \/ \E p \in Procs : WriteFile(p)
  \/ \E p \in Procs : Pdftotext(p)
  \/ \E p \in Procs : Unlink(p)
  \/ TickMs

FetchSpec == Init /\ [][FetchNext]_vars

(***************************************************************************)
(* PDFParserOptimized.parsePDFFromURL and its in-memory cache.  The awaits *)
(* of the download and of pdftotext do not touch the Map: the call is one  *)
(* step up to its first await and one step from the last await on.        *)
(***************************************************************************)
Urls == 1..NumUrls

\* the calls that are between their first await and their last
Awaiting == {call \in Urls \X Procs : call[2] <= parses[call[1]]}

\* memoryCache.get(url): the index of the entry, 0 for undefined
get(entries, url) ==
  IF \E i \in 1..Len(entries) : entries[i].url = url
  THEN CHOOSE i \in 1..Len(entries) : entries[i].url = url
  ELSE 0

\* memoryCache.set(url, {data, timestamp}): a known key keeps its place
set(entries, url, timestamp) ==
  IF get(entries, url) # 0
  THEN [entries EXCEPT ![get(entries, url)].timestamp = timestamp]
  ELSE Append(entries, [url |-> url, data |-> url, timestamp |-> timestamp])

\* mutant of oldest: the sort is descending
newest(entries) ==
  CHOOSE i \in 1..Len(entries) :
     \A j \in 1..Len(entries) :
        \/ entries[i].timestamp > entries[j].timestamp
        \/ entries[i].timestamp = entries[j].timestamp /\ i >= j

\* lines 136-137: the first entry of the entries sorted by timestamp; the sort
\* is stable, so of equal timestamps the one inserted first
oldest(entries) ==
  CHOOSE i \in 1..Len(entries) :
     \A j \in 1..Len(entries) :
        \/ entries[i].timestamp < entries[j].timestamp
        \/ entries[i].timestamp = entries[j].timestamp /\ i <= j

\* memoryCache.delete(key) of the i-th entry
delete(entries, i) ==
  [j \in 1..(Len(entries) - 1) |-> IF j < i THEN entries[j] ELSE entries[j + 1]]

\* the entry of the url is there and younger than the TTL
Cached(url) ==
  /\ get(memoryCache, url) # 0
  /\ millis - memoryCache[get(memoryCache, url)].timestamp < MEMORY_CACHE_TTL

\* the Map has an entry of the url or a call is parsing it
InUse(url) == get(memoryCache, url) # 0 \/ parses[url] > 0

\* a request handler is free and asks for a URL in use or for the least of
\* those that are not: the code keeps nothing about a URL that is neither
\* stored nor being parsed
Asks(url) ==
  /\ Cardinality(Awaiting) < NumProcs
  /\ asked < MaxParses
  /\ asked' = asked + 1
  /\ InUse(url) \/ \A other \in Urls : other < url => InUse(other)

\* lines 93-97: the entry is cached and fresh, cached.data is returned
MemoryCacheHit(url) ==
  /\ Asks(url)
  /\ Cached(url)
  /\ memoReturn' = [cached |-> TRUE, evicted |-> 0]
  /\ UNCHANGED <<millis, memoryCache, parses>>
  /\ UNCHANGED <<tmpdir, fetches, parseReturn>>
  /\ UNCHANGED <<cacheVars, parserVars>>

\* lines 93-108: no fresh entry, the download starts
MemoryCacheMiss(url) ==
  /\ Asks(url)
  /\ ~Cached(url)
  /\ parses' = [parses EXCEPT ![url] = @ + 1]
  /\ UNCHANGED <<millis, memoryCache, memoReturn>>
  /\ UNCHANGED <<tmpdir, fetches, parseReturn>>
  /\ UNCHANGED <<cacheVars, parserVars>>

\* lines 120-145: the text is parsed, the result stored, the oldest entry
\* deleted when there are more than 5, and the result returned
StoreResult(url) ==
  /\ parses[url] > 0
  /\ LET stored == set(memoryCache, url, millis)
     IN IF Len(stored) > 5
        THEN /\ memoryCache' = delete(stored, oldest(stored))
             /\ memoReturn' = [cached |-> FALSE, evicted |-> stored[oldest(stored)].url]
        ELSE /\ memoryCache' = stored
             /\ memoReturn' = [cached |-> FALSE, evicted |-> 0]
  /\ parses' = [parses EXCEPT ![url] = @ - 1]
  /\ UNCHANGED <<millis, asked>>
  /\ UNCHANGED <<tmpdir, fetches, parseReturn>>
  /\ UNCHANGED <<cacheVars, parserVars>>

\* lines 146-148: the download or pdftotext failed, the call throws
ParseThrows(url) ==
  /\ parses[url] > 0
  /\ parses' = [parses EXCEPT ![url] = @ - 1]
  /\ UNCHANGED <<millis, memoryCache, asked, memoReturn>>
  /\ UNCHANGED <<tmpdir, fetches, parseReturn>>
  /\ UNCHANGED <<cacheVars, parserVars>>

MemoNext ==
  \/ \E url \in Urls : MemoryCacheHit(url)
  \/ \E url \in Urls : MemoryCacheMiss(url)
  \/ \E url \in Urls : StoreResult(url)
  \/ \E url \in Urls : ParseThrows(url)
  \/ TickMs

MemoSpec == Init /\ [][MemoNext]_vars

(***************************************************************************)
(* Properties                                                              *)
(***************************************************************************)

\* handler p takes a getOrParsePdf call in this step
StartsGet(p) == Free(p) /\ calls'[p].op = "get"

\* the getOrParsePdf of handler p returns or throws in this step
EndsGet(p) == calls[p].op = "get" /\ calls'[p].op = "none"

\* the getOrParsePdf of handler p returns parsed.classes in this step
EndsMiss(p) == EndsGet(p) /\ calls[p].pc \in {"insertCache", "insertClasses"}

\* a getCacheStatus call is made and answered in this step
StatusStep ==
  /\ started' # started /\ calls' = calls
  /\ lastReturn'.op = "status" /\ lastReturn'.outcome = "ok"

\* a getOrParsePdf call is made while getDb() gives no database, in this step
GetWithoutDb ==
  /\ started' # started /\ calls' = calls
  /\ lastReturn'.op = "get"

\* the number of occurrences of x in the sequence s
Count(s, x) == Cardinality({i \in 1..Len(s) : s[i] = x})

\* the two sequences hold the same entries, each as many times
SameCollection(s, t) ==
  /\ Len(s) = Len(t)
  /\ \A i \in 1..Len(s) : Count(s, s[i]) = Count(t, s[i])

\* the composite key of the data model
compositeKey(e) ==
  <<e.day, e.timeStart, e.courseCode, e.batchSection, e.teacher, e.room>>

\* all candidates of a text, in document order
Candidates(text) == passOf[text].candidates

\* C1: a getOrParsePdf call for a key that starts after an earlier call for the
\* key has parsed, persisted and returned, before that record's expiresAt and
\* with no invalidate of the department since the earlier call began, does
\* not parse again: it is served from the store.
C1_Idempotence ==
  [][\A p \in Procs :
       StartsGet(p) =>
         LET k == <<calls'[p].department, calls'[p].version>>
         IN (served[k] > 0 /\ now < served[k]) => calls'[p].pc # "parse"]_vars

\* C2: a hit is only ever taken on a record of the key that is not expired at
\* the time of the lookup; a call that finds no non-expired record of its key
\* invokes the parser, and when it returns it returns the classes of that parse.
C2_Expiry ==
  [][\A p \in Procs :
       /\ StartsGet(p) =>
            LET c == calls'[p]
            IN /\ c.pc = "selectClasses" =>
                    \E r \in RecordsOf(c.department, c.version) :
                       r.id = c.validCache /\ ~Expired(r, now)
               /\ ValidRecordsOf(c.department, c.version, now) = {} => c.pc = "parse"
       /\ EndsMiss(p) =>
            /\ lastReturn'.outcome = "ok"
            /\ lastReturn'.hit = FALSE
            /\ lastReturn'.classes = calls[p].parsed]_vars

\* a call found only an expired record of its key and is parsing afresh
C2_Witness ==
  \E p \in Procs :
    /\ calls[p].op = "get" /\ calls[p].pc \in {"parse", "insertCache"}
    /\ RecordsOf(calls[p].department, calls[p].version) # {}
    /\ ValidRecordsOf(calls[p].department, calls[p].version, now) = {}

\* C3: at any time at most one non-expired record exists per (department, version).
C3_OneValidRecordPerKey ==
  \A k \in Keys : Cardinality(ValidRecordsOf(k[1], k[2], now)) <= 1

\* C4: when parsePDFFromURL throws inside getOrParsePdf, the caller gets an
\* error and the step leaves both tables as they were; the call has inserted
\* nothing before either.
C4_FailedParseLeavesStore ==
  [][\A p \in Procs :
       (EndsGet(p) /\ calls[p].pc = "parse") =>
          /\ lastReturn'.op = "get" /\ lastReturn'.outcome = "error"
          /\ calls[p].cacheId = 0
          /\ pdfCache' = pdfCache
          /\ classSchedules' = classSchedules]_vars

\* a parse failed while the store held a record with its classes, and still holds them
C4_Witness ==
  /\ lastReturn.op = "get" /\ lastReturn.outcome = "error"
  /\ \E r \in pdfCache :
       /\ r.department = lastReturn.department
       /\ r.totalClasses > 0
       /\ Cardinality({x \in classSchedules : x.cacheId = r.id}) = r.totalClasses

\* C5: empty output of the text-rendering step is never taken as a successful
\* parse: no call goes on to persist a record for it.
C5_EmptyOutputAborts ==
  \A p \in Procs :
    (calls[p].op = "get" /\ calls[p].pc = "insertCache") => calls[p].text # EmptyText

\* C6: when a miss returns after persisting, the store holds exactly one
\* record of its key, and every class row of records of the key belongs to it.
C6_MissReplacesPriorRecord ==
  [][\A p \in Procs :
       EndsMiss(p) =>
         LET c == calls[p]
             recs == {r \in pdfCache' : r.department = c.department /\ r.version = c.version}
         IN /\ Cardinality(recs) = 1
            /\ \A r \in recs : r.id = (IF c.cacheId = 0 THEN nextId ELSE c.cacheId)]_vars

\* C7: when a clearCache that no getOrParsePdf of its department overlapped
\* completes, no record and no class row of the department is left, and
\* getCacheStatus of the department can only answer isCached = false.
C7_InvalidateRemovesDepartment ==
  [][\A p \in Procs :
       (calls[p].op = "clear" /\ calls'[p].op = "none" /\ calls[p].undisturbed) =>
         LET d == calls[p].department
         IN /\ \A r \in pdfCache' : r.department # d
            /\ \A r \in classSchedules' : r.department # d
            /\ \A cache \in Limit1({r \in pdfCache' : r.department = d}) :
                  ~isCachedOf(cache, now)]_vars

\* C8: getCacheStatus answers isCached = true exactly when a non-expired record
\* of the department exists; it starts no parse and writes nothing.
C8_StatusReportsValidRecord ==
  [][StatusStep =>
       /\ lastReturn'.op = "status"
       /\ lastReturn'.isCached =
            (\E r \in pdfCache : r.department = lastReturn'.department /\ ~Expired(r, now))
       /\ pdfCache' = pdfCache
       /\ classSchedules' = classSchedules]_vars

\* C9: a hit returns the same collection of entries, field for field, that the
\* miss which created the record parsed and returned.
C9_HitReturnsCreatorsEntries ==
  [][\A p \in Procs :
       (EndsGet(p) /\ calls[p].pc = "selectClasses" /\ calls[p].validCache \in DOMAIN created) =>
          SameCollection(lastReturn'.classes, created[calls[p].validCache])]_vars

\* C10: every candidate of the text appears in the parse result, and no two
\* entries of the result share the 6-field composite key: candidates that
\* differ in teacher or room only are both kept.
C10_SixFieldKeyKeepsBoth ==
  \A p \in Procs :
    (calls[p].op = "get" /\ calls[p].pc = "insertCache") =>
       LET cands == Candidates(calls[p].text)
           classes == calls[p].parsed
       IN /\ \A i \in 1..Len(cands) : \E j \in 1..Len(classes) : classes[j] = cands[i]
          /\ \A i, j \in 1..Len(classes) :
                compositeKey(classes[i]) = compositeKey(classes[j]) => i = j

\* C18: a getOrParsePdf call made while the database cannot be reached does
\* not fail: it returns the classes of a fresh parse.
C18_DegradedModeReturnsParse ==
  [][GetWithoutDb =>
       /\ lastReturn'.outcome = "ok"
       /\ \E text \in Texts : lastReturn'.classes = extractClasses(text)]_vars

\* the record of the key that was written last
LastWritten(department, version) ==
  CHOOSE r \in RecordsOf(department, version) :
     \A x \in RecordsOf(department, version) : x.id <= r.id

\* C19: a getOrParsePdf call for a key that starts when every earlier call
\* for its department has completed and the record written last for the key
\* has not expired is a cache hit on that record.
C19_LastWriteWins ==
  [][\A p \in Procs :
       StartsGet(p) =>
         LET department == calls'[p].department
             version == calls'[p].version
         IN (/\ \A q \in Procs : calls[q].department # department
             /\ RecordsOf(department, version) # {}
             /\ now < LastWritten(department, version).expiresAt)
            => /\ calls'[p].pc = "selectClasses"
               /\ calls'[p].validCache = LastWritten(department, version).id]_vars

\* C20: a hit that no clearCache of the department overlapped returns as many
\* entries as the parse that created its record had: never the empty or
\* shortened list of a record whose class rows are not all inserted.
C20_NoPartialRecordObserved ==
  [][\A p \in Procs :
       (/\ EndsGet(p) /\ calls[p].pc = "selectClasses"
        /\ calls[p].undisturbed
        /\ calls[p].validCache \in DOMAIN created)
       => Len(lastReturn'.classes) = Len(created[calls[p].validCache])]_vars

\* C21: a getOrParsePdf call that starts while the store holds a non-expired
\* record of its key is a cache hit and does not parse, whatever expired
\* records of the key the store holds besides.
C21_LookupFindsValidRecord ==
  [][\A p \in Procs :
       StartsGet(p) =>
         (ValidRecordsOf(calls'[p].department, calls'[p].version, now) # {}
            => calls'[p].pc = "selectClasses")]_vars

\* C22: every class row belongs to a record that exists.
C22_RowsOwnedByExistingRecord ==
  \A row \in classSchedules : \E r \in pdfCache : r.id = row.cacheId

\* handler p starts a clearCache or runs one of its statements in this step
ClearStep(p) ==
  /\ calls'[p].op = "clear" \/ calls[p].op = "clear"
  /\ [calls'[p] EXCEPT !.undisturbed = FALSE] # [calls[p] EXCEPT !.undisturbed = FALSE]

\* C23: a step of clearCache(department) leaves the records and the class rows
\* of every other department as they are.
C23_InvalidateLeavesOtherDepartments ==
  [][\A p \in Procs :
       ClearStep(p) =>
         LET department == IF calls[p].op = "clear" THEN calls[p].department
                           ELSE calls'[p].department
         IN /\ {r \in pdfCache' : r.department # department}
                 = {r \in pdfCache : r.department # department}
            /\ {row \in classSchedules' : row.department # department}
                 = {row \in classSchedules : row.department # department}]_vars

\* a clearCache has returned last, no call is running, and another department
\* has a record with class rows
C23_Witness ==
  /\ lastReturn.op = "clear" /\ lastReturn.outcome = "ok"
  /\ \A p \in Procs : Free(p)
  /\ \E r \in pdfCache :
        /\ r.department # lastReturn.department
        /\ \E row \in classSchedules : row.cacheId = r.id /\ row.department = r.department

(***************************************************************************)
(* Properties of the parser, for ParserSpec                                *)
(***************************************************************************)

keysOf(classes) == {compositeKey(classes[i]) : i \in 1..Len(classes)}

NoDuplicateKeys(classes) ==
  \A i, j \in 1..Len(classes) :
     compositeKey(classes[i]) = compositeKey(classes[j]) => i = j

\* the number of classes on the d-th weekday
countOn(classes, d) == Cardinality({i \in 1..Len(classes) : classes[i].day = DAYS[d]})

\* the value lists of a groupByDay result, concatenated in weekday order
RECURSIVE concatFrom(_, _)
concatFrom(grouped, d) ==
  IF d > Len(DAYS) THEN <<>>
  ELSE (IF formatDay(DAYS[d]) \in DOMAIN grouped THEN grouped[formatDay(DAYS[d])] ELSE <<>>)
       \o concatFrom(grouped, d + 1)

\* the entry is a Saturday class of section 71_I with these fields
Shows(e, timeStart, courseCode, room, teacher) ==
  /\ e.day = DAYS[1] /\ e.timeStart = timeStart /\ e.courseCode = courseCode
  /\ e.batch = "71" /\ e.section = "I" /\ e.room = room /\ e.teacher = teacher

C12_ScenarioEntries ==
  (document = ScenarioText /\ firstPass.done) =>
     /\ Len(firstPass.classes) = 2
     /\ Shows(firstPass.classes[1], "08:30", "CSE112", "KT-222", "MB")
     /\ Shows(firstPass.classes[2], "10:00", "MAT101", "KT-223", "AST")

\* C12 as amended: the block parses to exactly two entries, with the rooms and
\* teachers stated, both in the 10:00 column: the anchors at offsets 0 and 7 put
\* the column boundary at offset 3 and CSE112 is matched at offset 6.
C12_ScenarioBothInSecondColumn ==
  (document = ScenarioText /\ firstPass.done) =>
     /\ Len(firstPass.classes) = 2
     /\ Shows(firstPass.classes[1], "10:00", "CSE112", "KT-222", "MB")
     /\ Shows(firstPass.classes[2], "10:00", "MAT101", "KT-223", "AST")

\* the four-line block was parsed
C12_Witness == document = ScenarioText /\ firstPass.done

\* C13: the stats of a parse: totalClasses is the number of entries;
\* busiestDayCount is the largest per-day count and busiestDay the earliest
\* weekday that attains it; when there are entries, lightestDayCount is the
\* smallest count among the days that have classes and lightestDay a weekday
\* that attains it.
C13_StatsMatchReference ==
  firstPass.done =>
     LET classes == firstPass.classes
         stats == firstPass.stats
     IN /\ stats.totalClasses = Len(classes)
        /\ \A d \in DOMAIN DAYS : stats.busiestDayCount >= countOn(classes, d)
        /\ \E d \in DOMAIN DAYS :
              /\ stats.busiestDay = formatDay(DAYS[d])
              /\ countOn(classes, d) = stats.busiestDayCount
              /\ \A e \in DOMAIN DAYS : e < d => countOn(classes, e) < stats.busiestDayCount
        /\ Len(classes) > 0 =>
              \E d \in DOMAIN DAYS :
                 /\ stats.lightestDay = formatDay(DAYS[d])
                 /\ countOn(classes, d) > 0
                 /\ countOn(classes, d) = stats.lightestDayCount
                 /\ \A e \in DOMAIN DAYS :
                       countOn(classes, e) > 0 => countOn(classes, e) >= stats.lightestDayCount

\* stats of a parse in which two weekdays tie for the busiest and the later of
\* them comes first in the document
C13_Witness ==
  /\ firstPass.done
  /\ \E d, e \in DOMAIN DAYS :
        /\ d < e
        /\ countOn(firstPass.classes, d) = firstPass.stats.busiestDayCount
        /\ countOn(firstPass.classes, e) = firstPass.stats.busiestDayCount
        /\ firstPass.stats.busiestDayCount > 0
        /\ firstPass.classes[1].day = DAYS[e]

\* C14: the stats of a parse without entries carry the empty sentinel: both
\* days "N/A", both counts 0.
C14_EmptySentinel ==
  (firstPass.done /\ Len(firstPass.classes) = 0) =>
     /\ firstPass.stats.busiestDay = "N/A"
     /\ firstPass.stats.lightestDay = "N/A"
     /\ firstPass.stats.busiestDayCount = 0
     /\ firstPass.stats.lightestDayCount = 0

\* C15 as stated: groupByDay returns exactly 7 keys and its value lists,
\* concatenated in weekday order, are the list it was given.
C15_GroupByDayReproducesList ==
  schedule.done =>
     /\ Cardinality(DOMAIN schedule.grouped) = 7
     /\ concatFrom(schedule.grouped, 1) = firstPass.classes

\* C15 as amended: groupByDay returns exactly 7 keys, one per weekday, each
\* list holds entries of its weekday only, the lists together hold every entry
\* of the given list exactly as often as the list does, and the entries of one
\* weekday keep their order; entries of different weekdays need not.
C15_GroupByDayKeepsEntries ==
  schedule.done =>
     LET grouped == schedule.grouped
         classes == firstPass.classes
     IN /\ Cardinality(DOMAIN grouped) = 7
        /\ DOMAIN grouped = {formatDay(DAYS[d]) : d \in DOMAIN DAYS}
        /\ \A k \in DOMAIN grouped : \A i \in 1..Len(grouped[k]) :
              formatDay(grouped[k][i].day) = k
        /\ SameCollection(concatFrom(grouped, 1), classes)
        /\ \A k \in DOMAIN grouped : \A i, j \in 1..Len(grouped[k]) :
              i < j => \E m, n \in 1..Len(classes) :
                          /\ m < n
                          /\ classes[m] = grouped[k][i]
                          /\ classes[n] = grouped[k][j]

\* classes of two weekdays were grouped that the document lists later day first
C15_Witness ==
  /\ schedule.done
  /\ \E i, j \in 1..Len(firstPass.classes) :
        /\ i < j
        /\ \E d, e \in DOMAIN DAYS :
              d > e /\ firstPass.classes[i].day = DAYS[d] /\ firstPass.classes[j].day = DAYS[e]

\* C16: every entry of a parse has one of the 7 weekdays as its day and
\* batch, "_" and section joined as its batchSection.
C16_DayAndBatchSection ==
  firstPass.done =>
     \A i \in 1..Len(firstPass.classes) :
        LET e == firstPass.classes[i]
        IN /\ \E d \in DOMAIN DAYS : e.day = DAYS[d]
           /\ e.batchSection = e.batch \o "_" \o e.section

\* a parse with an entry under a day header that the document has in lower case
C16_Witness ==
  /\ firstPass.done
  /\ \E i \in 1..Len(firstPass.classes) : firstPass.classes[i].day = DAYS[2]

\* the lines of the parsed document
Lines == split(document)

\* line i is a weekday name, leading and trailing space and case apart
IsDayLine(i) == \E d \in DOMAIN DAYS : DAYS[d] = toUpperCase(trim(Lines[i]))

\* line i holds the COM LAB marker
IsMarkerLine(i) == includes(Lines[i], "COM LAB")

\* the day headers that the pass saw above line i, and the last of them
HeadersBefore(i) == {h \in 1..Len(firstPass.headers) : firstPass.headers[h].line < i}

HeaderFor(i) ==
  firstPass.headers[CHOOSE h \in HeadersBefore(i) : \A g \in HeadersBefore(i) : g <= h]

\* the offset of the match is in none of the columns of its day
InNoColumn(m) ==
  \A j \in 1..Len(m.timeSlots) :
     ~(m.index >= m.timeSlots[j].columnStart /\ m.index < m.timeSlots[j].columnEnd)

\* the entry is in the result, or one with the same unique key is
Kept(e) == \E j \in 1..Len(firstPass.classes) : uniqueKey(firstPass.classes[j]) = uniqueKey(e)

\* the room of the entry carries the lab mark
MarkedLab(e) == substring(e.room, Len(e.room) - 6, Len(e.room)) = " (LAB)"

Min(a, b) == IF a <= b THEN a ELSE b

\* the offsets of the non-overlapping course tokens of a line, from position i on
RECURSIVE tokensFrom(_, _)
tokensFrom(line, i) ==
  LET found == {j \in i..Len(line) : coursePatternAt(line, j).length > 0}
  IN IF found = {} THEN {}
     ELSE LET j == CHOOSE x \in found : \A y \in found : x <= y
          IN {j - 1} \cup tokensFrom(line, j + coursePatternAt(line, j).length)

\* line i is below a day header whose column list is not empty
InDayWithColumns(i) == HeadersBefore(i) # {} /\ HeaderFor(i).timeSlots # <<>>

\* the pass built a candidate for the course token at offset x of line i
YieldsCandidate(i, x) ==
  \E k \in 1..Len(firstPass.matches) :
     /\ firstPass.matches[k].line = i
     /\ firstPass.matches[k].index = x
     /\ Kept(firstPass.matches[k].entry)

\* C24: a candidate whose offset lies in none of the columns of its day gets
\* the time slot of the first column, and it is kept like any other candidate.
C24_DefaultsToFirstColumn ==
  firstPass.done =>
     \A k \in 1..Len(firstPass.matches) :
        LET m == firstPass.matches[k]
        IN InNoColumn(m) =>
              /\ m.entry.timeStart = m.timeSlots[1].start
              /\ m.entry.timeEnd = m.timeSlots[1].end
              /\ Kept(m.entry)

\* a page of three columns was parsed that has a course token beyond the last column
C24_Witness ==
  /\ firstPass.done
  /\ \E k \in 1..Len(firstPass.matches) :
        InNoColumn(firstPass.matches[k]) /\ Len(firstPass.matches[k].timeSlots) = 3

\* C25: the time ranges and the anchors of a day header are paired in index
\* order up to the shorter length: the day gets min(#ranges, #anchors) columns,
\* the j-th with the j-th time range, and the course tokens on the lines of a
\* day that has one of each are extracted.
C25_PairsUpToShorter ==
  firstPass.done =>
     /\ \A h \in 1..Len(firstPass.headers) :
           LET header == firstPass.headers[h]
               n == Min(Len(header.times), Len(header.columnPositions))
           IN /\ Len(header.timeSlots) = n
              /\ \A j \in 1..n : /\ header.timeSlots[j].start = header.times[j].start
                                 /\ header.timeSlots[j].end = header.times[j].end
     /\ \A i \in 1..Len(Lines) :
           (/\ HeadersBefore(i) # {}
            /\ ~IsDayLine(i) /\ ~IsMarkerLine(i)
            /\ Len(HeaderFor(i).times) > 0 /\ Len(HeaderFor(i).columnPositions) > 0)
           => \A x \in tokensFrom(Lines[i], 1) : YieldsCandidate(i, x)

\* C26: the columns of a day with anchors a_1 < ... < a_n: the first starts at
\* 0, column j ends and column j+1 starts at the midpoint of a_j and a_j+1
\* (rounded down), the last ends at the sentinel 300; every offset below the
\* sentinel is in exactly one column.
C26_ColumnsPartitionTheLine ==
  firstPass.done =>
     \A h \in 1..Len(firstPass.headers) :
        LET a == firstPass.headers[h].columnPositions
            c == firstPass.headers[h].timeSlots
            n == Len(c)
        IN n > 0 =>
              /\ n = Len(a)
              /\ c[1].columnStart = 0
              /\ \A j \in 1..(n - 1) :
                    /\ 2 * c[j].columnEnd <= a[j] + a[j + 1]
                    /\ a[j] + a[j + 1] < 2 * c[j].columnEnd + 2
                    /\ c[j + 1].columnStart = c[j].columnEnd
              /\ c[n].columnEnd = 300
              /\ \A x \in 0..299 :
                    Cardinality({j \in 1..n : x >= c[j].columnStart /\ x < c[j].columnEnd}) = 1

\* a day with three columns, so with an interior one, was parsed
C26_Witness ==
  /\ firstPass.done
  /\ \E h \in 1..Len(firstPass.headers) : Len(firstPass.headers[h].timeSlots) = 3

\* C27: the lines that are a weekday name are exactly the lines at which the
\* pass starts a day; a day starts with the columns of its own time line and
\* header line and with the lab flag off; every candidate has a day header
\* above its line and carries the day and the columns of the last one above it.
C27_SegmenterFollowsHeaders ==
  firstPass.done =>
     /\ \A i \in 1..Len(Lines) :
           IsDayLine(i) <=> \E h \in 1..Len(firstPass.headers) : firstPass.headers[h].line = i
     /\ \A h \in 1..Len(firstPass.headers) :
           LET header == firstPass.headers[h]
               timeLine == IF header.line + 1 <= Len(Lines) THEN Lines[header.line + 1] ELSE ""
               headerLine == IF header.line + 2 <= Len(Lines) THEN Lines[header.line + 2] ELSE ""
           IN /\ header.day = toUpperCase(trim(Lines[header.line]))
              /\ ~header.inComLabSection
              /\ Len(header.timeSlots) \in {0, Len(timePattern(timeLine, 1))}
              /\ Len(header.timeSlots) \in {0, Len(courseHeaderPattern(headerLine, 1))}
     /\ \A k \in 1..Len(firstPass.matches) :
           LET m == firstPass.matches[k]
           IN /\ HeadersBefore(m.line) # {}
              /\ m.entry.day = HeaderFor(m.line).day
              /\ m.timeSlots = HeaderFor(m.line).timeSlots

\* a page was parsed that has a course token above its first day and a day
\* with classes after a day with a COM LAB marker
C27_Witness ==
  /\ firstPass.done
  /\ Len(firstPass.headers) >= 2
  /\ \E i \in 1..Len(Lines) : HeadersBefore(i) = {} /\ tokensFrom(Lines[i], 1) # {}
  /\ \E i \in 1..Len(Lines), k \in 1..Len(firstPass.matches) :
        /\ IsMarkerLine(i)
        /\ HeadersBefore(i) # {}
        /\ HeaderFor(firstPass.matches[k].line).line > i

\* C28: a candidate is marked as lab exactly when a line with the COM LAB
\* marker lies between the last day header above it and its own line.
C28_LabFlagWithinDay ==
  firstPass.done =>
     \A k \in 1..Len(firstPass.matches) :
        LET m == firstPass.matches[k]
        IN HeadersBefore(m.line) # {} =>
              (MarkedLab(m.entry) <=>
                 \E i \in (HeaderFor(m.line).line + 1)..(m.line - 1) : IsMarkerLine(i))

\* a page was parsed with a class above the marker of its day, a class below
\* it, and a class in a later day
C28_Witness ==
  /\ firstPass.done
  /\ \E j, k, l \in 1..Len(firstPass.matches) :
        LET before == firstPass.matches[j]
            after == firstPass.matches[k]
            later == firstPass.matches[l]
        IN /\ HeaderFor(before.line) = HeaderFor(after.line)
           /\ ~MarkedLab(before.entry)
           /\ MarkedLab(after.entry)
           /\ HeaderFor(later.line).line > after.line
           /\ ~MarkedLab(later.entry)

\* C29 as stated: in a day with columns, every course token of every line that
\* is not a day header yields a candidate, the lines with the COM LAB marker
\* included.
C29_EveryTokenYieldsCandidate ==
  firstPass.done =>
     \A i \in 1..Len(Lines) :
        (InDayWithColumns(i) /\ ~IsDayLine(i)) =>
           \A x \in tokensFrom(Lines[i], 1) : YieldsCandidate(i, x)

\* C29 as amended: in a day with columns, every course token of every line
\* that is neither a day header nor holds the COM LAB marker yields a
\* candidate; a line with the marker yields none, whatever tokens it holds.
C29_TokensOffMarkerLinesYield ==
  firstPass.done =>
     /\ \A i \in 1..Len(Lines) :
           (InDayWithColumns(i) /\ ~IsDayLine(i) /\ ~IsMarkerLine(i)) =>
              \A x \in tokensFrom(Lines[i], 1) : YieldsCandidate(i, x)
     /\ \A k \in 1..Len(firstPass.matches) : ~IsMarkerLine(firstPass.matches[k].line)

\* a page was parsed with two course tokens on one line and a course token on
\* a line with the marker
C29_Witness ==
  /\ firstPass.done
  /\ \E i, j \in 1..Len(Lines) :
        /\ InDayWithColumns(i) /\ IsMarkerLine(i) /\ tokensFrom(Lines[i], 1) # {}
        /\ InDayWithColumns(j) /\ ~IsMarkerLine(j) /\ Cardinality(tokensFrom(Lines[j], 1)) >= 2

(***************************************************************************)
(* Properties of parsePDFFromURL, for FetchSpec                            *)
(***************************************************************************)

\* C17: a parsePDFFromURL that no call for the same department overlapped and
\* whose download succeeded returns the entries of its own department's
\* document, whatever calls for other departments do meanwhile.
C17_OwnDocumentParsed ==
  (parseReturn.alone /\ parseReturn.outcome \in {"ok", "failed"}) =>
     /\ parseReturn.outcome = "ok"
     /\ parseReturn.classes = extractClasses(PdfTexts[parseReturn.department])

(***************************************************************************)
(* Properties of the in-memory cache, for MemoSpec                         *)
(***************************************************************************)

\* the entry of the url in the Map before this step is not in it after
Evicted(url) == get(memoryCache, url) # 0 /\ get(memoryCache', url) = 0

\* a call for the url ends in this step and does not throw
Stores(url) ==
  /\ parses'[url] < parses[url]
  /\ <<memoryCache, memoReturn>>' # <<memoryCache, memoReturn>>

\* C30: the in-memory cache never holds more than 5 entries; a call that
\* stores its result leaves it in the cache with the current timestamp; an
\* entry leaves the cache only when a call stores the result of a URL that
\* made a sixth entry, the entry that leaves is not the one just stored, and
\* no entry that stays has an older timestamp.
C30_MemoryCacheBounded ==
  [][/\ Len(memoryCache') <= 5
     /\ \A url \in Urls :
           Stores(url) =>
              /\ get(memoryCache', url) # 0
              /\ memoryCache'[get(memoryCache', url)].timestamp = millis
     /\ \A url \in Urls :
           Evicted(url) =>
              /\ \E stored \in Urls \ {url} : Stores(stored) /\ get(memoryCache, stored) = 0
              /\ Len(memoryCache) = 5 /\ Len(memoryCache') = 5
              /\ \A j \in 1..Len(memoryCache') :
                    memoryCache[get(memoryCache, url)].timestamp <= memoryCache'[j].timestamp]_vars

\* a call has stored the result of a sixth URL and an entry was deleted for it
C30_Witness ==
  /\ memoReturn.evicted # 0
  /\ Len(memoryCache) = 5
  /\ get(memoryCache, memoReturn.evicted) = 0

====
